---- MODULE Spec2Model ----
(***************************************************************************)
(* Platform predicates of reindeer (src/src/platform.rs): the Cargo-style  *)
(* `cfg(...)` expression, its evaluation against a PlatformConfig, its     *)
(* Display form, and the lookup platform_names_for_expr.                   *)
(*                                                                         *)
(* Strings are sequences of one-character strings, so that parsing and     *)
(* printing work on the characters themselves.                             *)
(***************************************************************************)
EXTENDS Integers, Sequences, FiniteSets

VARIABLES
    entry,        \* which public function the caller invokes: "eval", "parse" or "lookup"
    pc,           \* position of the call
    pred,         \* eval: the predicate given to eval
    config,       \* eval: the PlatformConfig given to eval
    evalResult,   \* eval: the returned bool
    expr,         \* parse, lookup: the PlatformExpr text
    parsed,       \* parse: result of PlatformPredicate::parse(expr)
    printed,      \* parse: Display output of the parsed predicate
    reparsed,     \* parse: result of parsing "cfg(" + printed + ")"
    table,        \* lookup: config.platform, PlatformName -> PlatformConfig
    lookupResult  \* lookup: result of platform_names_for_expr, with the names
                  \* of the table entries whose config was evaluated

vars == <<entry, pc, pred, config, evalResult, expr, parsed, printed,
          reparsed, table, lookupResult>>

-----------------------------------------------------------------------------
(* Bounds *)

\* longest list of children of any(...) / all(...) among the enumerated predicates
MaxList == 2

\* longest free sequence of lexemes among the enumerated texts
MaxLexemes == 3

-----------------------------------------------------------------------------
(* Strings *)

S_unix == <<"u","n","i","x">>
S_windows == <<"w","i","n","d","o","w","s">>
S_target_family == <<"t","a","r","g","e","t","_","f","a","m","i","l","y">>
S_cfg == <<"c","f","g","(">>
S_any == <<"a","n","y","(">>
S_all == <<"a","l","l","(">>
S_not == <<"n","o","t","(">>
S_close == <<")">>
S_comma == <<",">>
S_eq == <<"=">>
S_quote == <<"\"">>
S_space == <<" ">>
S_trailing == <<" ","t","r","a","i","l","i","n","g">>
S_target_os == <<"t","a","r","g","e","t","_","o","s">>
S_linux == <<"l","i","n","u","x">>
S_android == <<"a","n","d","r","o","i","d">>

Letters ==
    {"a","b","c","d","e","f","g","h","i","j","k","l","m","n","o","p","q",
     "r","s","t","u","v","w","x","y","z"}
Digits == {"0","1","2","3","4","5","6","7","8","9"}
IdentStart == Letters \cup {"_"}
IdentChars == IdentStart \cup Digits
Whitespace == {" ", "\t", "\n", "\r"}

StartsWith(i, t) == Len(i) >= Len(t) /\ SubSeq(i, 1, Len(t)) = t
Drop(i, n) == SubSeq(i, n + 1, Len(i))

RECURSIVE join(_, _)
join(texts, sep) ==
    IF texts = <<>> THEN <<>>
    ELSE IF Len(texts) = 1 THEN texts[1]
    ELSE texts[1] \o sep \o join(Tail(texts), sep)

RECURSIVE SeqsUpTo(_, _)
SeqsUpTo(S, n) ==
    IF n = 0 THEN {<<>>}
    ELSE LET shorter == SeqsUpTo(S, n - 1)
         IN  shorter \cup {Append(s, x) : s \in shorter, x \in S}

-----------------------------------------------------------------------------
(* PlatformConfig: HashMap<String, HashSet<String>> *)

Keys == {S_unix, S_windows, S_target_family}
Values == {S_unix, S_windows}

EmptyConfig == [k \in {} |-> {}]
LinuxAndroid == [k \in {S_target_os} |-> {S_linux, S_android}]
WindowsOs == [k \in {S_target_os} |-> {S_windows}]

PlatformConfig ==
    UNION {[D -> SUBSET Values] : D \in SUBSET Keys} \cup {LinuxAndroid, WindowsOs}

-----------------------------------------------------------------------------
(* PlatformPredicate *)

Any(preds) == [tag |-> "Any", key |-> <<>>, value |-> <<>>, preds |-> preds]
All(preds) == [tag |-> "All", key |-> <<>>, value |-> <<>>, preds |-> preds]
Not(p) == [tag |-> "Not", key |-> <<>>, value |-> <<>>, preds |-> <<p>>]
Value(key, value) == [tag |-> "Value", key |-> key, value |-> value, preds |-> <<>>]
Bool(key) == [tag |-> "Bool", key |-> key, value |-> <<>>, preds |-> <<>>]
Unix == [tag |-> "Unix", key |-> <<>>, value |-> <<>>, preds |-> <<>>]
Windows == [tag |-> "Windows", key |-> <<>>, value |-> <<>>, preds |-> <<>>]
NoPred == [tag |-> "None", key |-> <<>>, value |-> <<>>, preds |-> <<>>]

RECURSIVE eval(_, _)
RECURSIVE target_family_bool(_, _)

\* target_family_bool with the target_family test left out
target_family_bool_BoolOnly(family, c) == eval(Bool(family), c)

\* target_family_bool with && in place of ||
target_family_bool_And(family, c) ==
    eval(Bool(family), c) /\ eval(Value(S_target_family, family), c)

target_family_bool(family, c) ==
    eval(Bool(family), c) \/ eval(Value(S_target_family, family), c)

\* eval with map_or(false, ..): an absent key fails a Value
eval_ValueAbsentFalse(p, c) ==
    CASE p.tag = "Bool" -> p.key \in DOMAIN c
      [] p.tag = "Value" ->
            IF p.key \in DOMAIN c THEN p.value \in c[p.key] ELSE FALSE
      [] p.tag = "Not" -> ~eval(p.preds[1], c)
      [] p.tag = "Any" -> \E n \in 1..Len(p.preds) : eval(p.preds[n], c)
      [] p.tag = "All" -> \A n \in 1..Len(p.preds) : eval(p.preds[n], c)
      [] p.tag = "Unix" -> target_family_bool(S_unix, c)
      [] p.tag = "Windows" -> target_family_bool(S_windows, c)

\* eval with Any evaluated by all()
eval_AnyIsAll(p, c) ==
    CASE p.tag = "Bool" -> p.key \in DOMAIN c
      [] p.tag = "Value" ->
            IF p.key \in DOMAIN c THEN p.value \in c[p.key] ELSE TRUE
      [] p.tag = "Not" -> ~eval(p.preds[1], c)
      [] p.tag = "Any" -> \A n \in 1..Len(p.preds) : eval(p.preds[n], c)
      [] p.tag = "All" -> \A n \in 1..Len(p.preds) : eval(p.preds[n], c)
      [] p.tag = "Unix" -> target_family_bool(S_unix, c)
      [] p.tag = "Windows" -> target_family_bool(S_windows, c)

\* eval with Bool asking for a non-empty value set
eval_BoolNonEmpty(p, c) ==
    CASE p.tag = "Bool" -> p.key \in DOMAIN c /\ c[p.key] # {}
      [] p.tag = "Value" ->
            IF p.key \in DOMAIN c THEN p.value \in c[p.key] ELSE TRUE
      [] p.tag = "Not" -> ~eval(p.preds[1], c)
      [] p.tag = "Any" -> \E n \in 1..Len(p.preds) : eval(p.preds[n], c)
      [] p.tag = "All" -> \A n \in 1..Len(p.preds) : eval(p.preds[n], c)
      [] p.tag = "Unix" -> target_family_bool(S_unix, c)
      [] p.tag = "Windows" -> target_family_bool(S_windows, c)

eval(p, c) ==
    CASE p.tag = "Bool" -> p.key \in DOMAIN c
      [] p.tag = "Value" ->
            IF p.key \in DOMAIN c THEN p.value \in c[p.key] ELSE TRUE
      [] p.tag = "Not" -> ~eval(p.preds[1], c)
      [] p.tag = "Any" -> \E n \in 1..Len(p.preds) : eval(p.preds[n], c)
      [] p.tag = "All" -> \A n \in 1..Len(p.preds) : eval(p.preds[n], c)
      [] p.tag = "Unix" -> target_family_bool(S_unix, c)
      [] p.tag = "Windows" -> target_family_bool(S_windows, c)

RECURSIVE fmt(_)

\* fmt with the quotes around the value left out
fmt_NoQuotes(p) ==
    CASE p.tag = "Bool" -> p.key
      [] p.tag = "Value" -> p.key \o <<" ","="," ">> \o p.value
      [] p.tag = "Any" ->
            <<"a","n","y","(">>
                \o join([n \in 1..Len(p.preds) |-> fmt(p.preds[n])], <<",", " ">>)
                \o <<")">>
      [] p.tag = "All" ->
            <<"a","l","l","(">>
                \o join([n \in 1..Len(p.preds) |-> fmt(p.preds[n])], <<",", " ">>)
                \o <<")">>
      [] p.tag = "Not" -> <<"n","o","t","(">> \o fmt(p.preds[1]) \o <<")">>
      [] p.tag = "Unix" -> <<"u","n","i","x">>
      [] p.tag = "Windows" -> <<"w","i","n","d","o","w","s">>

\* impl Display for PlatformPredicate
fmt(p) ==
    CASE p.tag = "Bool" -> p.key
      [] p.tag = "Value" -> p.key \o <<" ","="," ","\"">> \o p.value \o <<"\"">>
      [] p.tag = "Any" ->
            <<"a","n","y","(">>
                \o join([n \in 1..Len(p.preds) |-> fmt(p.preds[n])], <<",", " ">>)
                \o <<")">>
      [] p.tag = "All" ->
            <<"a","l","l","(">>
                \o join([n \in 1..Len(p.preds) |-> fmt(p.preds[n])], <<",", " ">>)
                \o <<")">>
      [] p.tag = "Not" -> <<"n","o","t","(">> \o fmt(p.preds[1]) \o <<")">>
      [] p.tag = "Unix" -> <<"u","n","i","x">>
      [] p.tag = "Windows" -> <<"w","i","n","d","o","w","s">>

-----------------------------------------------------------------------------
(* cfg::parse, the grammar of the expression:                              *)
(*   expr := "cfg(" predicate ")"                                          *)
(*   predicate := any_expr | all_expr | not_expr | value_pred | bool_pred  *)
(* Whitespace may stand between two tokens.  A result is Ok with the       *)
(* predicate and the unconsumed rest, Incomplete when the input ends       *)
(* before a required token, or Error when the input violates the grammar.  *)

POk(p, rest) == [kind |-> "Ok", pred |-> p, rest |-> rest]
PIncomplete == [kind |-> "Incomplete", pred |-> NoPred, rest |-> <<>>]
PError == [kind |-> "Error", pred |-> NoPred, rest |-> <<>>]

RECURSIVE sp(_)
sp(i) == IF i # <<>> /\ i[1] \in Whitespace THEN sp(Tail(i)) ELSE i

\* a fixed token t at the head of i
tag(t, i) ==
    IF StartsWith(i, t) THEN POk(NoPred, Drop(i, Len(t)))
    ELSE IF Len(i) < Len(t) /\ SubSeq(t, 1, Len(i)) = i THEN PIncomplete
    ELSE PError

\* length of the longest prefix of i made of characters of S
RECURSIVE span(_, _)
span(S, i) == IF i # <<>> /\ i[1] \in S THEN 1 + span(S, Tail(i)) ELSE 0

\* ident := identifier characters, first one not a digit; returns the parse
\* result (its rest is the remaining input) and the identifier
ident(i) ==
    IF i = <<>> THEN <<PIncomplete, <<>>>>
    ELSE IF i[1] \notin IdentStart THEN <<PError, <<>>>>
    ELSE <<POk(NoPred, Drop(i, span(IdentChars, i))), SubSeq(i, 1, span(IdentChars, i))>>

\* the characters of body before its first quote, and the input after that quote
string_body(body, n) ==
    IF n = Len(body) THEN <<PIncomplete, <<>>>>
    ELSE <<POk(NoPred, Drop(body, n + 1)), SubSeq(body, 1, n)>>

\* quoted_string := '"' non-quote characters '"'; returns the parse result and
\* the characters between the quotes
quoted_string(i) ==
    IF i = <<>> THEN <<PIncomplete, <<>>>>
    ELSE IF i[1] # "\"" THEN <<PError, <<>>>>
    ELSE string_body(Tail(i),
                     span({i[k] : k \in 1..Len(i)} \ {"\""}, Tail(i)))

\* bool_pred: the reserved words become the helper leaves
bool_pred(key) ==
    IF key = S_unix THEN Unix
    ELSE IF key = S_windows THEN Windows
    ELSE Bool(key)

\* value_pred := ident "=" quoted_string, q the result of quoted_string
value_pred(key, q) ==
    IF q[1].kind # "Ok" THEN q[1] ELSE POk(Value(key, q[2]), q[1].rest)

\* value_pred | bool_pred, id the result of ident
leaf(id) ==
    IF id[1].kind # "Ok" THEN id[1]
    ELSE IF StartsWith(sp(id[1].rest), S_eq)
         THEN value_pred(id[2], quoted_string(sp(Drop(sp(id[1].rest), 1))))
         ELSE POk(bool_pred(id[2]), id[1].rest)

\* the token ")" after the result c of tag, closing the predicate p
closed(p, c) == IF c.kind # "Ok" THEN c ELSE POk(p, c.rest)

\* r followed by ")"
closing(r) ==
    IF r.kind # "Ok" THEN r ELSE closed(r.pred, tag(S_close, sp(r.rest)))

\* not_expr := "not(" predicate ")", r the result of the part after "not("
not_expr(r) == IF r.kind # "Ok" THEN r ELSE POk(Not(r.pred), r.rest)

List(op, preds) == [tag |-> op, key |-> <<>>, value |-> <<>>, preds |-> preds]

RECURSIVE predicate(_)
RECURSIVE predicate_list_tail(_, _, _)

\* one more predicate r of a list
list_next(op, acc, r) ==
    IF r.kind # "Ok" THEN r
    ELSE predicate_list_tail(op, Append(acc, r.pred), sp(r.rest))

\* ("," predicate)* ")" after a predicate of a list
predicate_list_tail(op, acc, j) ==
    IF StartsWith(j, S_comma)
    THEN list_next(op, acc, predicate(sp(Drop(j, 1))))
    ELSE closed(List(op, acc), tag(S_close, j))

\* [ predicate ("," predicate)* ] ")" after "any(" or "all("
predicate_list(op, j) ==
    IF StartsWith(j, S_close) THEN POk(List(op, <<>>), Drop(j, 1))
    ELSE list_next(op, <<>>, predicate(j))

predicate(i) ==
    IF StartsWith(i, S_any) THEN predicate_list("Any", sp(Drop(i, 4)))
    ELSE IF StartsWith(i, S_all) THEN predicate_list("All", sp(Drop(i, 4)))
    ELSE IF StartsWith(i, S_not) THEN not_expr(closing(predicate(sp(Drop(i, 4)))))
    ELSE leaf(ident(i))

\* the part after "cfg(", t the result of tag
cfg_body(t) == IF t.kind # "Ok" THEN t ELSE closing(predicate(sp(t.rest)))

cfg_parse(i) == cfg_body(tag(S_cfg, i))

-----------------------------------------------------------------------------
(* PlatformPredicate::parse and PredicateParseError *)

ROk(p) == [kind |-> "Ok", pred |-> p, junk |-> <<>>]
TrailingJunk(rest) == [kind |-> "TrailingJunk", pred |-> NoPred, junk |-> rest]
Incomplete == [kind |-> "Incomplete", pred |-> NoPred, junk |-> <<>>]
\* the message of ParseError is a diagnostic rendering and is left out
ParseError == [kind |-> "ParseError", pred |-> NoPred, junk |-> <<>>]
NotRun == [kind |-> "NotRun", pred |-> NoPred, junk |-> <<>>]

\* the match with the rest of the input ignored
parse_match_IgnoreRest(r) ==
    CASE r.kind = "Ok" -> ROk(r.pred)
      [] r.kind = "Incomplete" -> Incomplete
      [] r.kind = "Error" -> ParseError

\* the match on the result r of cfg::parse
parse_match(r) ==
    CASE r.kind = "Ok" /\ r.rest = <<>> -> ROk(r.pred)
      [] r.kind = "Ok" /\ r.rest # <<>> -> TrailingJunk(r.rest)
      [] r.kind = "Incomplete" -> Incomplete
      [] r.kind = "Error" -> ParseError

parse(input) == parse_match(cfg_parse(input))

\* The predicates handed to eval
Leaves ==
    {Unix, Windows, Value(S_target_os, S_linux)} \cup {Bool(k) : k \in Keys}
        \cup {Value(k, v) : k \in Keys, v \in Values}
Children == Leaves \cup {Not(Windows), Any(<<>>)}
Predicates ==
    Leaves
        \cup {Not(p) : p \in Children \cup {All(<<>>), Any(<<Unix>>)}}
        \cup {Any(l) : l \in SeqsUpTo(Children, MaxList)}
        \cup {All(l) : l \in SeqsUpTo(Children, MaxList)}

-----------------------------------------------------------------------------
(* The expression texts handed to parse *)

\* p written in the grammar, with w between the tokens
RECURSIVE Render(_, _)
Render(p, w) ==
    CASE p.tag = "Bool" -> p.key
      [] p.tag = "Value" -> p.key \o w \o S_eq \o w \o S_quote \o p.value \o S_quote
      [] p.tag = "Any" ->
            S_any \o w
                \o join([n \in 1..Len(p.preds) |-> Render(p.preds[n], w)],
                        w \o S_comma \o w)
                \o w \o S_close
      [] p.tag = "All" ->
            S_all \o w
                \o join([n \in 1..Len(p.preds) |-> Render(p.preds[n], w)],
                        w \o S_comma \o w)
                \o w \o S_close
      [] p.tag = "Not" -> S_not \o w \o Render(p.preds[1], w) \o w \o S_close
      [] p.tag = "Unix" -> S_unix
      [] p.tag = "Windows" -> S_windows

Wrap(p, w) == S_cfg \o w \o Render(p, w) \o w \o S_close

Prefixes(t) == {SubSeq(t, 1, n) : n \in 0..Len(t)}

RECURSIVE Concat(_)
Concat(l) == IF l = <<>> THEN <<>> ELSE l[1] \o Concat(Tail(l))

Lexemes ==
    {S_cfg, S_any, S_not, S_close, S_comma, S_eq, S_space, S_quote, S_unix,
     S_target_family, S_quote \o S_unix \o S_quote, <<"6">>}

WellFormed == {Wrap(p, w) : p \in Predicates, w \in {<<>>, S_space}}
WithJunk == {t \o j : t \in WellFormed, j \in {S_trailing, S_close, S_space}}
Truncated ==
    UNION {Prefixes(Wrap(p, w)) :
             p \in Leaves \cup {Not(Unix), Any(<<Unix, Windows>>), All(<<>>)},
             w \in {<<>>, S_space}}
FreeForm ==
    LET ls == {Concat(l) : l \in SeqsUpTo(Lexemes, MaxLexemes)}
    IN  ls \cup {S_cfg \o t : t \in ls}

PlatformExpr == WellFormed \cup WithJunk \cup Truncated \cup FreeForm

-----------------------------------------------------------------------------
(* platform_names_for_expr *)

PlatformName == {"DEFAULT", "win64"}

TableConfigs == {c \in PlatformConfig : DOMAIN c \subseteq {S_windows, S_target_family}}
Tables == UNION {[D -> TableConfigs] : D \in SUBSET PlatformName}

\* the orders in which a HashMap may iterate over its keys
IterOrders(tbl) ==
    {o \in [1..Cardinality(DOMAIN tbl) -> DOMAIN tbl] :
        \A m, n \in 1..Cardinality(DOMAIN tbl) : o[m] = o[n] => m = n}

RECURSIVE filter(_, _, _)

\* filter with the test negated
filter_Negated(p, tbl, order) ==
    IF order = <<>> THEN <<>>
    ELSE IF ~eval(p, tbl[order[1]])
         THEN <<order[1]>> \o filter(p, tbl, Tail(order))
         ELSE filter(p, tbl, Tail(order))

\* .filter(|(_name, platconfig)| pred.eval(platconfig)).map(|(name, _config)| name)
filter(p, tbl, order) ==
    IF order = <<>> THEN <<>>
    ELSE IF eval(p, tbl[order[1]])
         THEN <<order[1]>> \o filter(p, tbl, Tail(order))
         ELSE filter(p, tbl, Tail(order))

\* the ? with a parse error turned into an empty answer
propagate_or_filter_Swallow(r, tbl, order) ==
    IF r.kind # "Ok"
    THEN [kind |-> "Ok", junk |-> <<>>, names |-> <<>>, evaluated |-> {}]
    ELSE [kind |-> "Ok", junk |-> <<>>, names |-> filter(r.pred, tbl, order),
          evaluated |-> {order[n] : n \in 1..Len(order)}]

\* the ? on the result r of parse, then the iteration over the table;
\* evaluated: the names whose config was handed to eval
propagate_or_filter(r, tbl, order) ==
    IF r.kind # "Ok"
    THEN [kind |-> r.kind, junk |-> r.junk, names |-> <<>>, evaluated |-> {}]
    ELSE [kind |-> "Ok", junk |-> <<>>, names |-> filter(r.pred, tbl, order),
          evaluated |-> {order[n] : n \in 1..Len(order)}]

platform_names_for_expr(tbl, e, order) == propagate_or_filter(parse(e), tbl, order)

LookupNotRun == [kind |-> "NotRun", junk |-> <<>>, names |-> <<>>, evaluated |-> {}]

LookupExprs ==
    {Wrap(p, <<>>) :
        p \in Leaves \cup {Not(Windows), Not(Unix), Any(<<>>), All(<<>>),
                           Any(<<Unix, Windows>>)}}
        \cup {S_cfg \o S_unix \o S_close \o S_trailing,
              S_cfg \o S_unix, S_unix, S_cfg \o S_close}

-----------------------------------------------------------------------------
(* The calls *)

EmptyTable == [n \in {} |-> EmptyConfig]

InitEval ==
    /\ entry = "eval"
    /\ pred \in Predicates
    /\ config \in PlatformConfig
    /\ expr = <<>>
    /\ table = EmptyTable

InitParse ==
    /\ entry = "parse"
    /\ expr \in PlatformExpr
    /\ pred = NoPred
    /\ config = EmptyConfig
    /\ table = EmptyTable

InitLookup ==
    /\ entry = "lookup"
    /\ expr \in LookupExprs
    /\ table \in Tables
    /\ pred = NoPred
    /\ config = EmptyConfig

Init ==
    /\ InitEval \/ InitParse \/ InitLookup
    /\ pc = "start"
    /\ evalResult = FALSE
    /\ parsed = NotRun
    /\ printed = <<>>
    /\ reparsed = NotRun
    /\ lookupResult = LookupNotRun

\* pred.eval(config)
Eval ==
    /\ entry = "eval" /\ pc = "start"
    /\ evalResult' = eval(pred, config)
    /\ pc' = "done"
    /\ UNCHANGED <<entry, pred, config, expr, parsed, printed, reparsed, table,
                   lookupResult>>

\* PlatformPredicate::parse(expr)
Parse ==
    /\ entry = "parse" /\ pc = "start"
    /\ parsed' = parse(expr)
    /\ pc' = "parsed"
    /\ UNCHANGED <<entry, pred, config, evalResult, expr, printed, reparsed,
                   table, lookupResult>>

\* to_string() of the parsed predicate
Display ==
    /\ entry = "parse" /\ pc = "parsed" /\ parsed.kind = "Ok"
    /\ printed' = fmt(parsed.pred)
    /\ pc' = "printed"
    /\ UNCHANGED <<entry, pred, config, evalResult, expr, parsed, reparsed,
                   table, lookupResult>>

\* PlatformPredicate::parse of the printed predicate wrapped in cfg( )
Reparse ==
    /\ entry = "parse" /\ pc = "printed"
    /\ reparsed' = parse(S_cfg \o printed \o S_close)
    /\ pc' = "reparsed"
    /\ UNCHANGED <<entry, pred, config, evalResult, expr, parsed, printed,
                   table, lookupResult>>

\* platform_names_for_expr(config, expr)
Lookup ==
    /\ entry = "lookup" /\ pc = "start"
    /\ \E order \in IterOrders(table) :
          lookupResult' = platform_names_for_expr(table, expr, order)
    /\ pc' = "done"
    /\ UNCHANGED <<entry, pred, config, evalResult, expr, parsed, printed,
                   reparsed, table>>

Next == Eval \/ Parse \/ Display \/ Reparse \/ Lookup

Spec == Init /\ [][Next]_vars

-----------------------------------------------------------------------------
(* The scenarios of the specification *)

\* cfg(target_os = "linux")
Scenario1Expr ==
    <<"c","f","g","(","t","a","r","g","e","t","_","o","s"," ","="," ","\"","l","i","n","u","x","\"",")">>
\* cfg(not(windows))
Scenario4Expr == <<"c","f","g","(","n","o","t","(","w","i","n","d","o","w","s",")",")">>
\* cfg(unix) trailing
Scenario5Expr ==
    <<"c","f","g","(","u","n","i","x",")"," ","t","r","a","i","l","i","n","g">>
\* cfg(windows)
Scenario6Expr == <<"c","f","g","(","w","i","n","d","o","w","s",")">>
\* {"DEFAULT": {}, "win64": {target_family: {"windows"}}}
Scenario6Table ==
    [n \in {"DEFAULT", "win64"} |->
        IF n = "DEFAULT" THEN EmptyConfig ELSE [k \in {S_target_family} |-> {S_windows}]]

EvalDone == entry = "eval" /\ pc = "done"
LookupDone == entry = "lookup" /\ pc = "done"

\* how often name n stands in the sequence names
Count(names, n) == Cardinality({m \in 1..Len(names) : names[m] = n})

-----------------------------------------------------------------------------
(* Properties *)

\* C1: eval of Value{k,v} on c is true when k is not a key of c, and is
\* (v in c[k]) when k is a key of c; target_os = "linux" is true on
\* {target_os:{linux,android}}, false on {target_os:{windows}}, true on {}.
C1_ValueSemantics ==
    /\ (EvalDone /\ pred.tag = "Value") =>
          /\ pred.key \notin DOMAIN config => evalResult = TRUE
          /\ pred.key \in DOMAIN config => evalResult = (pred.value \in config[pred.key])
    /\ (EvalDone /\ pred = parse(Scenario1Expr).pred) =>
          /\ config = LinuxAndroid => evalResult = TRUE
          /\ config = WindowsOs => evalResult = FALSE
          /\ config = EmptyConfig => evalResult = TRUE

C1_Witness ==
    /\ EvalDone
    /\ pred = Value(S_target_os, S_linux)
    /\ config = EmptyConfig
    /\ evalResult = TRUE

\* C2, as stated: cfg(not(windows)) evaluated on the empty config is true.
C2_Original ==
    (EvalDone /\ pred = parse(Scenario4Expr).pred /\ config = EmptyConfig)
        => evalResult = TRUE

\* C2, amended: cfg(not(windows)) evaluated on the empty config is false,
\* because windows is true there: Bool{"windows"} is false on the absent key
\* but Value{"target_family","windows"} is true on the absent key.
C2_NotWindowsOnEmpty ==
    /\ (EvalDone /\ pred = parse(Scenario4Expr).pred /\ config = EmptyConfig)
          => evalResult = FALSE
    /\ (EvalDone /\ pred = Windows /\ config = EmptyConfig) => evalResult = TRUE

C2_Witness ==
    /\ EvalDone
    /\ pred = Not(Windows)
    /\ pred = parse(Scenario4Expr).pred
    /\ config = EmptyConfig
    /\ evalResult = FALSE

\* C3, as stated: the lookup of cfg(windows) in {"DEFAULT": {}, "win64":
\* {target_family:{"windows"}}} returns exactly the one name "win64".
C3_Original ==
    (LookupDone /\ expr = Scenario6Expr /\ table = Scenario6Table)
        => lookupResult.names = <<"win64">>

\* C3, amended: that lookup returns the two names "DEFAULT" and "win64", each
\* once, in the order of the table's iteration.
C3_LookupWindows ==
    (LookupDone /\ expr = Scenario6Expr /\ table = Scenario6Table) =>
        /\ lookupResult.kind = "Ok"
        /\ Len(lookupResult.names) = 2
        /\ {lookupResult.names[n] : n \in 1..Len(lookupResult.names)}
              = {"DEFAULT", "win64"}

C3_Witness ==
    /\ LookupDone
    /\ expr = Scenario6Expr
    /\ table = Scenario6Table
    /\ lookupResult.names = <<"win64", "DEFAULT">>

\* C4: eval of Unix on c is eval(Bool{"unix"}, c) or eval(Value{"target_family",
\* "unix"}, c), and eval of Windows likewise with "windows".
C4_TargetFamily ==
    /\ (EvalDone /\ pred = Unix) =>
          evalResult = (eval(Bool(S_unix), config)
                          \/ eval(Value(S_target_family, S_unix), config))
    /\ (EvalDone /\ pred = Windows) =>
          evalResult = (eval(Bool(S_windows), config)
                          \/ eval(Value(S_target_family, S_windows), config))

C4_Witness ==
    /\ EvalDone
    /\ pred = Windows
    /\ S_windows \notin DOMAIN config
    /\ S_target_family \in DOMAIN config
    /\ S_windows \in config[S_target_family]
    /\ evalResult = TRUE

\* C5: when the expression parses to p, the lookup returns a name n if and only
\* if n is a key of the table and eval(p, table[n]) is true; each such name
\* stands exactly once in the answer and no other name does.
C5_LookupFilter ==
    (LookupDone /\ parse(expr).kind = "Ok") =>
        /\ lookupResult.kind = "Ok"
        /\ \A m \in 1..Len(lookupResult.names) : lookupResult.names[m] \in DOMAIN table
        /\ \A n \in PlatformName :
              Count(lookupResult.names, n)
                  = IF n \in DOMAIN table /\ eval(parse(expr).pred, table[n])
                    THEN 1 ELSE 0

C5_Witness ==
    /\ LookupDone
    /\ lookupResult.kind = "Ok"
    /\ DOMAIN table = PlatformName
    /\ Len(lookupResult.names) = 1

\* C6: for every expression that parses, the Display text of the predicate,
\* wrapped in cfg( ), parses again, to a predicate that evaluates as the first
\* one does on every config.
RECURSIVE LeafKeys(_)
LeafKeys(p) ==
    IF p.tag \in {"Bool", "Value"} THEN {p.key}
    ELSE UNION {LeafKeys(p.preds[n]) : n \in 1..Len(p.preds)}

RECURSIVE LeafValues(_)
LeafValues(p) ==
    IF p.tag = "Value" THEN {p.value}
    ELSE UNION {LeafValues(p.preds[n]) : n \in 1..Len(p.preds)}

\* the configs over the keys and values p itself names
OwnConfigs(p) == UNION {[D -> SUBSET LeafValues(p)] : D \in SUBSET LeafKeys(p)}

C6_RoundTrip ==
    (entry = "parse" /\ pc = "reparsed") =>
        /\ reparsed.kind = "Ok"
        /\ \A c \in PlatformConfig \cup OwnConfigs(parsed.pred) :
              eval(reparsed.pred, c) = eval(parsed.pred, c)

C6_Witness ==
    /\ entry = "parse"
    /\ pc = "reparsed"
    /\ parsed.pred = Any(<<Value(S_target_family, S_windows), Unix>>)
    /\ reparsed.kind = "Ok"

\* C7: parse is Ok only when the grammar consumes the whole input; when a
\* proper prefix of the input is a whole cfg(...) expression, parse returns
\* TrailingJunk with exactly the rest; `cfg(unix) trailing` gives
\* TrailingJunk(" trailing").
C7_TrailingJunk ==
    (entry = "parse" /\ pc = "parsed") =>
        /\ parsed.kind = "Ok" =>
              cfg_parse(expr).kind = "Ok" /\ cfg_parse(expr).rest = <<>>
        /\ \A n \in 0..(Len(expr) - 1) :
              LET g == cfg_parse(SubSeq(expr, 1, n))
              IN  (g.kind = "Ok" /\ g.rest = <<>>)
                      => parsed = TrailingJunk(SubSeq(expr, n + 1, Len(expr)))
        /\ expr = Scenario5Expr => parsed = TrailingJunk(S_trailing)

C7_Witness ==
    /\ entry = "parse"
    /\ pc = "parsed"
    /\ expr = Scenario5Expr
    /\ parsed.kind = "TrailingJunk"
    /\ parsed.junk = S_trailing

\* C8: eval of Any([]) is false and eval of All([]) is true on every config;
\* eval of Any(list) is true iff some child is true and eval of All(list) is
\* true iff every child is true.
C8_AnyAll ==
    /\ (EvalDone /\ pred = Any(<<>>)) => evalResult = FALSE
    /\ (EvalDone /\ pred = All(<<>>)) => evalResult = TRUE
    /\ (EvalDone /\ pred.tag = "Any") =>
          evalResult = (\E n \in 1..Len(pred.preds) : eval(pred.preds[n], config))
    /\ (EvalDone /\ pred.tag = "All") =>
          evalResult = (\A n \in 1..Len(pred.preds) : eval(pred.preds[n], config))

C8_Witness ==
    /\ EvalDone
    /\ pred.tag = "Any"
    /\ Len(pred.preds) = 2
    /\ ~eval(pred.preds[1], config)
    /\ eval(pred.preds[2], config)
    /\ evalResult = TRUE

\* C9: eval of Bool{k} on c is true exactly when k is a key of c, whatever the
\* value set: an empty value set makes it true, an absent key makes it false,
\* while Value{k,v} on the absent key is true.
C9_BoolPresence ==
    /\ (EvalDone /\ pred.tag = "Bool") => evalResult = (pred.key \in DOMAIN config)
    /\ (EvalDone /\ pred.tag = "Value" /\ pred.key \notin DOMAIN config)
          => evalResult = TRUE

C9_Witness ==
    /\ EvalDone
    /\ pred.tag = "Bool"
    /\ pred.key \in DOMAIN config
    /\ config[pred.key] = {}
    /\ evalResult = TRUE

\* C10: when parsing the expression fails, the lookup returns the parser's
\* error, of the same kind, evaluates no table entry and returns no name; when
\* parsing succeeds it returns a list of names and never an error.
C10_NoPartialSuccess ==
    LookupDone =>
        LET r == parse(expr)
        IN  /\ r.kind # "Ok" =>
                  /\ lookupResult.kind = r.kind
                  /\ lookupResult.kind \in {"TrailingJunk", "Incomplete", "ParseError"}
                  /\ lookupResult.junk = r.junk
                  /\ lookupResult.names = <<>>
                  /\ lookupResult.evaluated = {}
            /\ r.kind = "Ok" => lookupResult.kind = "Ok"

C10_Witness ==
    /\ LookupDone
    /\ DOMAIN table = PlatformName
    /\ lookupResult.kind = "TrailingJunk"
    /\ lookupResult.junk = S_trailing
    /\ lookupResult.evaluated = {}

====
